---- MODULE Spec2Model ----
(***************************************************************************)
(* showattr: classification of an attribute access (get / set / del) via   *)
(* a new-style instance or class, as computed by src/showattr.py.          *)
(*                                                                         *)
(* The object model handed to showattr is the input: an object `obj` with  *)
(* its own __dict__, the __mro__ of type(obj) and, when obj is a class,    *)
(* its own __mro__.  Every class is a record [name, dict]; a dict is a     *)
(* function from its keys to stored values.  The state keeps the user      *)
(* classes of each __mro__; the builtin bases are appended on use.         *)
(*                                                                         *)
(* User code that showattr executes is an input as well: what each call    *)
(* does is chosen when the call is made.  Such code is the hook that an    *)
(* algorithm executes "to trigger possible EXCEPTION" (a user-defined      *)
(* __getattribute__, a descriptor's __get__), and the __getattribute__ /   *)
(* __getattr__ of type(obj) that run when showattr reads obj.__class__     *)
(* (inspect.isclass), obj.__dict__ and obj.__name__.  An algorithm is an   *)
(* operator that yields the set of its possible results, one for every way *)
(* the executed user code answers.                                         *)
(***************************************************************************)
EXTENDS Naturals, Sequences, FiniteSets, TLC

VARIABLES obj, name, method, info, executed

vars == <<obj, name, method, info, executed>>

-----------------------------------------------------------------------------
(* Bounds of the input space *)

\* longest user-defined part of a __mro__ (the builtin bases come after it)
MaxMro == 2

-----------------------------------------------------------------------------
(* Stored values *)

\* the value None; also what dict.get(name, None) yields for a missing key
None == [kind |-> "none", hooks |-> {}]

\* a value without any descriptor method, e.g. 'hello'
Plain == [kind |-> "plain", hooks |-> {}]

\* an instance of a user class defining the descriptor methods hs
Descr(hs) == [kind |-> "descr", hooks |-> hs]

\* a function defined with `def` in a class body (a non-data descriptor);
\* fetched through the class it is an unbound method (types.MethodType)
Function == [kind |-> "function", hooks |-> {"__get__"}]

\* the C-level default of object / type (not a types.MethodType)
SlotWrapper == [kind |-> "slot_wrapper", hooks |-> {"__get__"}]

\* hasattr(attr, h)
hasattr(attr, h) == h \in attr.hooks

-----------------------------------------------------------------------------
(* Capability predicates *)

\* variant: only bound methods count as user-defined (an unbound method
\* fetched through the class is then taken for a default)
isoverridemethod_BoundOnly(func) ==
    IF func = None THEN FALSE ELSE func.kind = "bound method"

isoverridemethod(func) ==
    IF func = None THEN FALSE ELSE func.kind = "function"

isgetdescriptor(attr) == hasattr(attr, "__get__")

\* variant: __delete__ alone does not make a set descriptor
issetdescriptor_SetOnly(attr) == hasattr(attr, "__set__")

issetdescriptor(attr) ==
    hasattr(attr, "__set__") \/ hasattr(attr, "__delete__")

isnondatadescriptor(attr) ==
    isgetdescriptor(attr) /\ ~issetdescriptor(attr)

\* variant: a data descriptor needs both __set__ and __delete__
isdatadescriptor_SetAndDelete(attr) ==
    isgetdescriptor(attr) /\ hasattr(attr, "__set__")
        /\ hasattr(attr, "__delete__")

\* variant: every get descriptor counts as a data descriptor
isdatadescriptor_AnyGet(attr) == isgetdescriptor(attr)

isdatadescriptor(attr) ==
    isgetdescriptor(attr) /\ issetdescriptor(attr)

-----------------------------------------------------------------------------
(* Builtin bases and lookups in a __mro__ *)

DefaultHooks == {"__getattribute__", "__setattr__", "__delattr__"}

\* `object`: ends every __mro__; defines the three hooks as slot wrappers
\* and no __getattr__
object == [name |-> "object", dict |-> [k \in DefaultHooks |-> SlotWrapper]]

\* `type`: the builtin metaclass, last but one in every metaclass __mro__
type == [name |-> "type", dict |-> [k \in DefaultHooks |-> SlotWrapper]]

\* cls.__mro__ of the class obj: its user classes, then object
mro_of(o) == o.bases \o <<object>>

\* type(obj).__mro__: the user classes of the kind, then the builtin bases
\* (type and object for a metaclass, object for a class)
type_mro_of(o) ==
    o.typebases \o (IF o.isclass THEN <<type, object>> ELSE <<object>>)

\* d.get(k, None)
DictGet(d, k) == IF k \in DOMAIN d THEN d[k] ELSE None

\* getattr(cls, key, None) for a class whose __mro__ is mro (the class of
\* that class is `type`: no user code runs)
RECURSIVE getattr(_, _)
getattr(mro, key) ==
    IF mro = <<>> THEN None
    ELSE IF key \in DOMAIN Head(mro).dict THEN Head(mro).dict[key]
    ELSE getattr(Tail(mro), key)

\* the loop `for c in cls.__mro__: attr = c.__dict__.get(name, None) ...`
\* yields the (attr, location) it leaves behind
RECURSIVE mro_find(_, _)
mro_find(mro, n) ==
    IF mro = <<>> THEN [attr |-> None, location |-> "None"]
    ELSE LET attr == DictGet(Head(mro).dict, n)
         IN  IF attr # None
             THEN [attr |-> attr, location |-> Head(mro).name \o ".__dict__"]
             ELSE mro_find(Tail(mro), n)

\* cls.__name__ of the class whose __mro__ is mro
classname(mro) == mro[1].name

-----------------------------------------------------------------------------
(* Executed user code *)

\* one call of user code: the hook, the attribute name it was called for,
\* and what it did
Call(hook, asked, outcome) ==
    [hook |-> hook, asked |-> asked, outcome |-> outcome]

\* a hook executed "to trigger possible EXCEPTION" returns (its value is
\* dropped), raises AttributeError, or raises something else
Outcomes == {"ok", "missing", "error"}

\* a hook of type(obj) asked for __class__, __dict__ or __name__: it answers
\* as the default of object / type does, returns None, returns the string 'why',
\* raises AttributeError, or raises something else
Answers == {"default", "None", "why", "missing", "error"}

-----------------------------------------------------------------------------
(* Reading obj.__class__, obj.__dict__ and obj.__name__ *)

\* the values these reads yield
NoneValue == [kind |-> "None", s |-> "", keys |-> {}]
Str(s) == [kind |-> "str", s |-> s, keys |-> {}]
Dict(keys) == [kind |-> "dict", s |-> "", keys |-> keys]
ClassObject(mro) == [kind |-> "class", s |-> mro[1].name, keys |-> {}]

\* truth value of v
bool(v) ==
    CASE v.kind = "None" -> FALSE
      [] v.kind = "str" -> v.s # ""
      [] v.kind = "dict" -> v.keys # {}

\* keys that the __dict__ of every class holds
ClassDictKeys == {"__module__", "__doc__"}

\* a read that yields v; a read that raises e
Got(v) == [status |-> "return", value |-> v, executed |-> <<>>]
Raised(e) == [status |-> e, value |-> NoneValue, executed |-> <<>>]

\* object.__getattribute__(inst, key) / type.__getattribute__(cls, key):
\* every object has a __class__ and a __dict__, a class has a __name__, an
\* instance has not
generic_getattr(inst, key) ==
    IF key = "__class__" THEN Got(ClassObject(type_mro_of(inst)))
    ELSE IF key = "__dict__"
    THEN Got(Dict(DOMAIN inst.dict \cup
                  (IF inst.isclass THEN ClassDictKeys ELSE {})))
    ELSE IF key = "__name__" /\ inst.isclass
    THEN Got(Str(classname(inst.bases)))
    ELSE Raised("AttributeError")

\* the user-defined hook of type(inst), called for key, answers a
answer(inst, hook, key, a) ==
    LET r == CASE a = "default" -> generic_getattr(inst, key)
               [] a = "None" -> Got(NoneValue)
               [] a = "why" -> Got(Str("why"))
               [] a = "missing" -> Raised("AttributeError")
               [] a = "error" -> Raised("Exception")
    IN  [r EXCEPT !.executed = <<Call(hook, key, a)>>]

\* inst.<key>: type(inst).__getattribute__(inst, key), the user-defined one
\* if there is one; when that raises AttributeError and type(inst) has a
\* __getattr__, type(inst).__getattr__(inst, key)
attribute(inst, key) ==
    LET cls == type_mro_of(inst)
        first ==
            IF getattr(cls, "__getattribute__").kind = "function"
            THEN {answer(inst, "__getattribute__", key, a) : a \in Answers}
            ELSE {generic_getattr(inst, key)}
    IN  UNION {IF r.status = "AttributeError"
                   /\ getattr(cls, "__getattr__") # None
               THEN {[answer(inst, "__getattr__", key, a)
                          EXCEPT !.executed = r.executed \o @] :
                      a \in Answers \ {"default"}}
               ELSE {r} : r \in first}

\* getattr(inst, key, None)
getattr_None(inst, key) ==
    {IF r.status = "AttributeError"
     THEN [r EXCEPT !.status = "return", !.value = NoneValue]
     ELSE r : r \in attribute(inst, key)}

\* `n in v`: a key of a dict, a substring of a string (of the strings read
\* here, a name is a substring of itself only); None is not a container
contains(v, n) ==
    CASE v.kind = "dict" -> [status |-> "return", value |-> n \in v.keys]
      [] v.kind = "str" -> [status |-> "return", value |-> n = v.s]
      [] v.kind = "None" -> [status |-> "Exception", value |-> FALSE]

\* getattr(inst, '__dict__', None) and name in inst.__dict__
indict(inst, n) ==
    UNION {IF a.status # "return"
           THEN {[status |-> a.status, value |-> FALSE,
                  executed |-> a.executed]}
           ELSE IF ~bool(a.value)
           THEN {[status |-> "return", value |-> FALSE,
                  executed |-> a.executed]}
           ELSE {IF b.status # "return"
                 THEN [status |-> b.status, value |-> FALSE,
                       executed |-> a.executed \o b.executed]
                 ELSE [status |-> contains(b.value, n).status,
                       value |-> contains(b.value, n).value,
                       executed |-> a.executed \o b.executed] :
                  b \in attribute(inst, "__dict__")} :
           a \in getattr_None(inst, "__dict__")}

\* getattr(inst, '__name__', None) or 'instance'
instancename(inst) ==
    {IF r.status # "return"
     THEN [status |-> r.status, value |-> "", executed |-> r.executed]
     ELSE [status |-> "return",
           value |-> IF bool(r.value) THEN r.value.s ELSE "instance",
           executed |-> r.executed] : r \in getattr_None(inst, "__name__")}

-----------------------------------------------------------------------------
(* Results of one algorithm: a returned (type, location), or an exception *)

\* `return (tag, loc)`
Return(tag, loc) ==
    [status |-> "return", tag |-> tag, loc |-> loc, executed |-> <<>>]

\* an exception e leaves the algorithm
Raise(e) == [status |-> e, tag |-> "", loc |-> "", executed |-> <<>>]

\* `raise AttributeError` by the algorithm itself
RaiseAttributeError == Raise("AttributeError")

\* the results rs, reached after the calls of prefix
After(prefix, rs) == {[r EXCEPT !.executed = prefix \o @] : r \in rs}

\* user code `hook` "executed to trigger possible EXCEPTION", then `return`
Execute(hook, n, tag, loc) ==
    UNION {After(<<Call(hook, n, outcome)>>,
                 {CASE outcome = "ok" -> Return(tag, loc)
                    [] outcome = "missing" -> Raise("AttributeError")
                    [] outcome = "error" -> Raise("Exception")}) :
           outcome \in Outcomes}

\* return ('attribute', '%s.__dict__' % instancename(inst))
return_instance_dict(inst) ==
    UNION {After(nm.executed,
                 {IF nm.status = "return"
                  THEN Return("attribute", nm.value \o ".__dict__")
                  ELSE Raise(nm.status)}) : nm \in instancename(inst)}

\* variant: no `except AttributeError:` clause, the exception escapes
except_AttributeError_NoCatch(cls, tried) == tried

\* `except AttributeError:` steps 7 and 8, shared by both get algorithms
except_AttributeError(cls, tried) ==
    IF tried.status # "AttributeError" THEN tried
    ELSE LET _getattr == getattr(cls, "__getattr__")
         IN  IF _getattr # None
             THEN [tried EXCEPT !.status = "return", !.tag = "attribute",
                                !.loc = classname(cls) \o "." \o "__getattr__"]
             ELSE [tried EXCEPT !.status = "return", !.tag = "attribute",
                                !.loc = "Not found"]

-----------------------------------------------------------------------------
(* Resolution engine *)

\* step 4 of getattr_via_class: the loop over cls.__mro__; no result when
\* the loop ends without returning
RECURSIVE getattr_via_class_step4(_, _)
getattr_via_class_step4(mro, n) ==
    IF mro = <<>> THEN {}
    ELSE LET attr_c == DictGet(Head(mro).dict, n)
             location == Head(mro).name \o ".__dict__"
         IN  IF attr_c # None
             THEN IF isgetdescriptor(attr_c)
                  THEN Execute("__get__", n, "get descriptor", location)
                  ELSE {Return("attribute", location)}
             ELSE getattr_via_class_step4(Tail(mro), n)

getattr_via_class(cls, n) ==
    LET mcls == type_mro_of(cls)
        _getattribute == getattr(mcls, "__getattribute__")
        found == mro_find(mcls, n)
        attr == found.attr
        location == found.location
        step4 == getattr_via_class_step4(mro_of(cls), n)
        tried ==
            IF isoverridemethod(_getattribute)
            THEN Execute("__getattribute__", n, "attribute",
                         classname(mcls) \o "." \o "__getattribute__")
            ELSE IF isdatadescriptor(attr)
            THEN Execute("__get__", n, "data descriptor", location)
            ELSE IF step4 # {} THEN step4
            ELSE IF isnondatadescriptor(attr)
            THEN Execute("__get__", n, "non-data descriptor", location)
            ELSE IF attr # None THEN {Return("attribute", location)}
            ELSE {RaiseAttributeError}
    IN  {except_AttributeError(mcls, t) : t \in tried}

getattr_via_instance(inst, n) ==
    LET cls == type_mro_of(inst)
        _getattribute == getattr(cls, "__getattribute__")
        found == mro_find(cls, n)
        attr == found.attr
        location == found.location
        \* steps 4 to 6, d being what the condition of step 4 came to
        step4(d) ==
            After(d.executed,
                  IF d.status # "return" THEN {Raise(d.status)}
                  ELSE IF d.value THEN return_instance_dict(inst)
                  ELSE IF isnondatadescriptor(attr)
                  THEN Execute("__get__", n, "non-data descriptor", location)
                  ELSE IF attr # None THEN {Return("attribute", location)}
                  ELSE {RaiseAttributeError})
        tried ==
            IF isoverridemethod(_getattribute)
            THEN Execute("__getattribute__", n, "attribute",
                         classname(cls) \o "." \o "__getattribute__")
            ELSE IF isdatadescriptor(attr)
            THEN Execute("__get__", n, "data descriptor", location)
            ELSE UNION {step4(d) : d \in indict(inst, n)}
    IN  {except_AttributeError(cls, t) : t \in tried}

setattr_via_instance(inst, n) ==
    LET cls == type_mro_of(inst)
        _setattr == getattr(cls, "__setattr__")
        found == mro_find(cls, n)
    IN  IF isoverridemethod(_setattr)
        THEN {Return("attribute", classname(cls) \o "." \o "__setattr__")}
        ELSE IF found.attr # None /\ issetdescriptor(found.attr)
        THEN {Return("set descriptor", found.location)}
        ELSE return_instance_dict(inst)

delattr_via_instance(inst, n) ==
    LET cls == type_mro_of(inst)
        _delattr == getattr(cls, "__delattr__")
        found == mro_find(cls, n)
        \* steps 3 and 4, d being what the condition of step 3 came to
        step3(d) ==
            After(d.executed,
                  IF d.status # "return" THEN {Raise(d.status)}
                  ELSE IF d.value THEN return_instance_dict(inst)
                  ELSE {Return("attribute", "Not found")})
    IN  IF isoverridemethod(_delattr)
        THEN {Return("attribute", classname(cls) \o "." \o "__delattr__")}
        ELSE IF found.attr # None /\ issetdescriptor(found.attr)
        THEN {Return("set descriptor", found.location)}
        ELSE UNION {step3(d) : d \in indict(inst, n)}

setattr_via_class(cls, n) == setattr_via_instance(cls, n)

delattr_via_class(cls, n) == delattr_via_instance(cls, n)

\* isinstance(inst, t) for t = type and t = types.ClassType, inst being an
\* instance of a user class: type(inst) is not a subclass of t, so
\* inst.__class__ is read; an exception of that read is dropped, and the
\* value read, not being a class other than type(inst), leaves the answer
\* False
isinstance_type(inst) ==
    {[value |-> FALSE, executed |-> r.executed] :
        r \in attribute(inst, "__class__")}

\* inspect.isclass(obj): isinstance(obj, (type, types.ClassType)); a class
\* is an instance of type, which no user code is asked about
isclass(o) ==
    IF o.isclass THEN {[value |-> TRUE, executed |-> <<>>]}
    ELSE {[value |-> a.value \/ b.value,
           executed |-> a.executed \o b.executed] :
             a \in isinstance_type(o), b \in isinstance_type(o)}

-----------------------------------------------------------------------------
(* The inputs: object models, names, methods *)

Names == {"attr"}

HookNames == {"__getattribute__", "__setattr__", "__delattr__", "__getattr__"}

\* the descriptor classes in use, by the methods they define
DescrKinds ==
    {{"__get__"}, {"__get__", "__set__"}, {"__get__", "__delete__"},
     {"__set__"}}

\* what a class body or an instance may store under a name
AttrValues == {None, Plain} \cup {Descr(hs) : hs \in DescrKinds}

EmptyDict == [k \in {} |-> None]

AttrDicts == {EmptyDict} \cup {[k \in {n} |-> v] : n \in Names, v \in AttrValues}

\* a class body defines at most one of the hooks; several hooks meet
\* along an __mro__
HookDicts == {EmptyDict} \cup {[k \in {h} |-> Function] : h \in HookNames}

ClassDicts == {a @@ h : a \in AttrDicts, h \in HookDicts}

\* names of the user classes, by position in the __mro__
ClassNames == <<"A", "B", "C", "D">>
MetaNames == <<"M", "N", "P", "Q">>

\* the user-defined part of a __mro__: the classes named names[1..],
\* with the dicts ds[1..]
Mro(names, ds) == [i \in DOMAIN ds |-> [name |-> names[i], dict |-> ds[i]]]

\* an instance, with __dict__ d, of the user class with __mro__
\* (m, object), of the default metaclass
Instance(d, m) ==
    [isclass |-> FALSE, dict |-> d, bases |-> <<>>, typebases |-> m]

\* the user class with __mro__ (m, object), whose metaclass has __mro__
\* (mm, type, object)
Class(m, mm) ==
    [isclass |-> TRUE, dict |-> m[1].dict, bases |-> m, typebases |-> mm]

\* what __init__ may have stored in the instance: nothing, a plain value,
\* or a descriptor object (as in the doctest of src/test.py)
InstanceDicts ==
    {EmptyDict} \cup
    {[k \in {n} |-> v] : n \in Names, v \in {Plain, Descr({"__get__"})}}

Methods == {"get", "set", "del"}

NotCalled == [status |-> "none", tag |-> "", loc |-> ""]

-----------------------------------------------------------------------------
(* The state machine: showattr(obj, name, method) on one object model *)

InitInstance ==
    \E d \in InstanceDicts, l \in 1..MaxMro :
        \E ds \in [1..l -> ClassDicts] :
            obj = Instance(d, Mro(ClassNames, ds))

\* a class and its metaclass: at most MaxMro + 1 user classes in all
InitClass ==
    \E l \in 1..MaxMro, ml \in 1..MaxMro :
        /\ l + ml <= MaxMro + 1
        /\ \E ds \in [1..l -> AttrDicts], mds \in [1..ml -> ClassDicts] :
               obj = Class(Mro(ClassNames, ds), Mro(MetaNames, mds))

Init ==
    /\ InitInstance \/ InitClass
    /\ name \in Names
    /\ method \in Methods
    /\ info = NotCalled
    /\ executed = <<>>

\* `info = target(obj, name); print(info)`, or the exception that escapes;
\* a behaviour is one call of showattr, made while info = NotCalled
print_info(r) ==
    /\ info' = [status |-> r.status, tag |-> r.tag, loc |-> r.loc]
    /\ executed' = r.executed
    /\ UNCHANGED <<obj, name, method>>

GetattrViaClass ==
    /\ info = NotCalled
    /\ method = "get"
    /\ \E c \in isclass(obj) :
           /\ c.value
           /\ \E r \in After(c.executed, getattr_via_class(obj, name)) : print_info(r)

SetattrViaClass ==
    /\ info = NotCalled
    /\ method = "set"
    /\ \E c \in isclass(obj) :
           /\ c.value
           /\ \E r \in After(c.executed, setattr_via_class(obj, name)) : print_info(r)

DelattrViaClass ==
    /\ info = NotCalled
    /\ method = "del"
    /\ \E c \in isclass(obj) :
           /\ c.value
           /\ \E r \in After(c.executed, delattr_via_class(obj, name)) : print_info(r)

GetattrViaInstance ==
    /\ info = NotCalled
    /\ method = "get"
    /\ \E c \in isclass(obj) :
           /\ ~c.value
           /\ \E r \in After(c.executed, getattr_via_instance(obj, name)) : print_info(r)

SetattrViaInstance ==
    /\ info = NotCalled
    /\ method = "set"
    /\ \E c \in isclass(obj) :
           /\ ~c.value
           /\ \E r \in After(c.executed, setattr_via_instance(obj, name)) : print_info(r)

DelattrViaInstance ==
    /\ info = NotCalled
    /\ method = "del"
    /\ \E c \in isclass(obj) :
           /\ ~c.value
           /\ \E r \in After(c.executed, delattr_via_instance(obj, name)) : print_info(r)

Next ==
    \/ GetattrViaClass
    \/ SetattrViaClass
    \/ DelattrViaClass
    \/ GetattrViaInstance
    \/ SetattrViaInstance
    \/ DelattrViaInstance

Spec == Init /\ [][Next]_vars

-----
(* Vocabulary of the properties: the object model read by key presence,   *)
(* as the attribute protocol defines it, independently of the algorithms  *)

\* type(obj).__mro__
KindMro == type_mro_of(obj)

\* obj.__mro__, for a class
OwnMro == mro_of(obj)

\* positions of the classes of mro whose own dict holds key
Definers(mro, key) == {i \in 1..Len(mro) : key \in DOMAIN mro[i].dict}

Defined(mro, key) == Definers(mro, key) # {}

\* the first class of mro whose own dict holds key
FirstDefiner(mro, key) ==
    CHOOSE i \in Definers(mro, key) : \A j \in Definers(mro, key) : i <= j

\* the value that class stores under key
FirstDefinition(mro, key) == mro[FirstDefiner(mro, key)].dict[key]

ReadWriteAccessor(v) ==
    "__get__" \in v.hooks /\ v.hooks \cap {"__set__", "__delete__"} # {}

ReadOnlyAccessor(v) == v.hooks = {"__get__"}

HasSetOrDeleteHook(v) == v.hooks \cap {"__set__", "__delete__"} # {}

PlainValue(v) == v.hooks = {}

\* the override hook of a method
OverrideHook(m) ==
    CASE m = "get" -> "__getattribute__"
      [] m = "set" -> "__setattr__"
      [] m = "del" -> "__delattr__"

\* the kind has a user-defined hook h (not the default of object / type)
GenuineOverride(h) ==
    Defined(KindMro, h) /\ FirstDefinition(KindMro, h).kind = "function"

\* '<class>.__dict__', '<instance>.__dict__', '<class>.<hook>'
OwnStorage(c) == c.name \o ".__dict__"

\* the calls of user code made for the attribute `asked` of the target
CallsFor(asked) == {i \in DOMAIN executed : executed[i].asked = asked}

\* a hook consulted for the name (a user-defined __getattribute__, or the
\* __get__ of an accessor stored under it) was executed and did o
Probed(hook, o) ==
    \E i \in CallsFor(name) :
        executed[i].hook = hook /\ executed[i].outcome = o

\* no __get__ of an accessor was executed
NoGetHookExecuted == \A i \in DOMAIN executed : executed[i].hook # "__get__"

\* the name of the target when no user code is asked for it: a class has
\* one, an instance goes by 'instance'
DefaultName == IF obj.isclass THEN obj.bases[1].name ELSE "instance"

\* the name the target goes by: what the last hook asked for __name__
\* returned, if one was asked and returned a name
InstanceName ==
    IF CallsFor("__name__") = {} THEN DefaultName
    ELSE LET last == executed[CHOOSE i \in CallsFor("__name__") :
                                  \A j \in CallsFor("__name__") : j <= i]
         IN  CASE last.outcome = "why" -> "why"
               [] last.outcome = "default" -> DefaultName
               [] OTHER -> "instance"

\* a hook asked for the name of the target failed with an error
NameLookupFailed ==
    \E i \in CallsFor("__name__") : executed[i].outcome = "error"

InstanceStorage == InstanceName \o ".__dict__"

HookLocation(c, h) == c.name \o "." \o h

Called == info.status # "none"

Returned(tag, loc) == info = [status |-> "return", tag |-> tag, loc |-> loc]

-----------------------------------------------------------------------------
(* C1 *)

C1_Case ==
    /\ ~obj.isclass /\ method = "get" /\ Called
    /\ Defined(KindMro, name)
    /\ ReadWriteAccessor(FirstDefinition(KindMro, name))

C1_DataDescriptor ==
    Returned("data descriptor", OwnStorage(KindMro[FirstDefiner(KindMro, name)]))

\* C1 as stated: whenever the first definition of the name in type(I)'s
\* linearization is a read-write accessor, reading via I returns
\* ('data descriptor', '<defining class>.__dict__').
C1_Original == C1_Case => C1_DataDescriptor

\* C1, amended: when moreover type(I) has no user-defined __getattribute__,
\* reading via I executes the accessor's __get__, and returns
\* ('data descriptor', '<defining class>.__dict__') whenever that __get__
\* returns normally, whether or not I's own __dict__ holds the name.
C1_ReadWriteAccessorDominates ==
    (C1_Case /\ ~GenuineOverride("__getattribute__")) =>
        /\ \E o \in Outcomes : executed = <<Call("__get__", name, o)>>
        /\ Probed("__get__", "ok") => C1_DataDescriptor

C1_Witness ==
    /\ C1_Case /\ ~GenuineOverride("__getattribute__")
    /\ name \in DOMAIN obj.dict
    /\ C1_DataDescriptor

-----------------------------------------------------------------------------
(* C2 *)

C2_Case ==
    /\ ~obj.isclass /\ method \in {"set", "del"} /\ Called
    /\ Defined(KindMro, name)
    /\ ReadWriteAccessor(FirstDefinition(KindMro, name))

C2_SetDescriptor ==
    Returned("set descriptor", OwnStorage(KindMro[FirstDefiner(KindMro, name)]))

\* C2 as stated: whenever the name resolves to a read-write accessor in
\* type(I)'s linearization, writing and deleting via I both return
\* ('set descriptor', '<defining class>.__dict__').
C2_Original == C2_Case => C2_SetDescriptor

\* C2, amended: when moreover type(I) has no user-defined __setattr__ (for
\* write) / __delattr__ (for delete), writing and deleting via I return
\* ('set descriptor', '<defining class>.__dict__'), never a location in I's
\* own __dict__, whether or not I's own __dict__ holds the name.
C2_WriteDeleteDispatchToAccessor ==
    (C2_Case /\ ~GenuineOverride(OverrideHook(method))) => C2_SetDescriptor

C2_Witness ==
    /\ C2_Case /\ ~GenuineOverride(OverrideHook(method))
    /\ method = "del"
    /\ name \in DOMAIN obj.dict
    /\ FirstDefinition(KindMro, name) = Descr({"__get__", "__delete__"})
    /\ C2_SetDescriptor

-----------------------------------------------------------------------------
(* C3 *)

C3_Case ==
    /\ ~obj.isclass /\ method = "get" /\ Called
    /\ Defined(KindMro, name)
    /\ ReadOnlyAccessor(FirstDefinition(KindMro, name))
    /\ name \in DOMAIN obj.dict

\* C3 as stated: whenever the name resolves to a read-only accessor in
\* type(I)'s linearization and I's own __dict__ holds the name too, reading
\* via I returns ('attribute', '<instance>.__dict__').
C3_Original == C3_Case => Returned("attribute", InstanceStorage)

\* C3, amended: when moreover type(I) has no user-defined __getattribute__,
\* reading via I executes no accessor's __get__ and returns
\* ('attribute', '<instance name or "instance">.__dict__'); the one way it
\* does not return is that type(I) has a __getattr__ which, asked for the
\* name of the instance, fails with an error (that error propagates).
C3_InstanceStorageBeatsReadOnlyAccessor ==
    (C3_Case /\ ~GenuineOverride("__getattribute__")) =>
        /\ NoGetHookExecuted
        /\ info.status = "return" => Returned("attribute", InstanceStorage)
        /\ info.status # "return" =>
               NameLookupFailed /\ Defined(KindMro, "__getattr__")

C3_Witness ==
    /\ C3_Case /\ ~GenuineOverride("__getattribute__")
    /\ obj.dict[name] = Descr({"__get__"})
    /\ Defined(KindMro, "__getattr__")
    /\ executed = <<Call("__getattr__", "__name__", "why")>>
    /\ Returned("attribute", "why.__dict__")

-----------------------------------------------------------------------------
(* C4 *)

C4_Case ==
    /\ obj.isclass /\ method = "get" /\ Called
    /\ ~Defined(OwnMro, name)
    /\ ~Defined(KindMro, name)

\* C4: reading via class C a name that no class of C's linearization and
\* no class of its metakind's linearization defines returns
\* ('attribute', 'Not found'), or, when the metakind has a __getattr__,
\* ('attribute', '<owner of that __getattr__>.__getattr__').  Stated for
\* the metakinds without a user-defined __getattribute__, which step 1
\* of the algorithm handles before anything else.
C4_AbsentNameViaClass ==
    (C4_Case /\ ~GenuineOverride("__getattribute__")) =>
        IF Defined(KindMro, "__getattr__")
        THEN Returned("attribute",
                 HookLocation(KindMro[FirstDefiner(KindMro, "__getattr__")],
                              "__getattr__"))
        ELSE Returned("attribute", "Not found")

-----------------------------------------------------------------------------
(* C5 *)

C5_Case ==
    /\ ~obj.isclass /\ method \in {"set", "del"} /\ Called
    /\ ~GenuineOverride(OverrideHook(method))
    /\ \/ ~Defined(KindMro, name)
       \/ ~HasSetOrDeleteHook(FirstDefinition(KindMro, name))

\* C5: without a user-defined __setattr__ / __delattr__, and when the first
\* definition of the name in type(I)'s linearization has neither __set__
\* nor __delete__ (or there is none), writing and deleting via I return
\* ('attribute', '<instance>.__dict__').  Stated for the calls in which no
\* hook of type(I) is asked for I's __class__, __dict__ or __name__: for
\* the write, and for the delete of a name that I's own __dict__ holds.
C5_WriteDeleteFallThrough ==
    (/\ C5_Case /\ executed = <<>>
     /\ method = "set" \/ name \in DOMAIN obj.dict)
        => Returned("attribute", InstanceStorage)

-----------------------------------------------------------------------------
(* C6 *)

C6_Case ==
    /\ obj.isclass /\ method = "get" /\ Called
    /\ ~GenuineOverride("__getattribute__")
    /\ \/ ~Defined(KindMro, name)
       \/ ~ReadWriteAccessor(FirstDefinition(KindMro, name))
    /\ Defined(OwnMro, name)

\* C6: reading via class C, when the metakind has no user-defined
\* __getattribute__, the first definition of the name in the metakind's
\* linearization (if any) is not a read-write accessor and some class of
\* C's own linearization defines the name: the location returned is the
\* first such class of C's linearization, with 'get descriptor' for a
\* read-only accessor stored there (its __get__ returning normally) and
\* 'attribute' for a plain value.
C6_ClassOwnLinearizationFirst ==
    (C6_Case /\ info.status = "return" /\ ~Probed("__get__", "missing")) =>
        LET c == OwnMro[FirstDefiner(OwnMro, name)]
        IN  /\ info.loc = OwnStorage(c)
            /\ ReadOnlyAccessor(c.dict[name]) => info.tag = "get descriptor"
            /\ PlainValue(c.dict[name]) => info.tag = "attribute"

-----------------------------------------------------------------------------
(* C7 *)

\* the step-7 outcome for the kind
C7_Step7 ==
    IF Defined(KindMro, "__getattr__")
    THEN Returned("attribute", HookLocation(KindMro[1], "__getattr__"))
    ELSE Returned("attribute", "Not found")

\* C7: in a read via a class or an instance, whenever the executed hook (a
\* user-defined __getattribute__, or the __get__ of a descriptor) raises
\* AttributeError, the call returns, and what it returns is
\* ('attribute', '<kind>.__getattr__') if the kind has a __getattr__ and
\* ('attribute', 'Not found') otherwise; no later candidate is reported.
C7_MissingNeverVisible ==
    (/\ method = "get"
     /\ Probed("__getattribute__", "missing") \/ Probed("__get__", "missing"))
        => C7_Step7

C7_Witness ==
    /\ method = "get" /\ ~obj.isclass
    /\ Probed("__get__", "missing")
    /\ name \in DOMAIN obj.dict
    /\ \E i \in 2..Len(KindMro) :
           name \in DOMAIN KindMro[i].dict /\ KindMro[i].dict[name] = Plain
    /\ Returned("attribute", "Not found")

-----------------------------------------------------------------------------
(* C8 *)

AccessorTags ==
    {"data descriptor", "non-data descriptor", "get descriptor",
     "set descriptor"}

\* every own-storage location of the object model
OwnStorages ==
    {OwnStorage(KindMro[i]) : i \in 1..Len(KindMro)} \cup
    {OwnStorage(OwnMro[i]) : i \in 1..Len(OwnMro)} \cup
    {nm \o ".__dict__" : nm \in {DefaultName, "instance", "why"}}

\* the locations that name hook h on a class of the kind's linearization
HookLocations(h) == {HookLocation(KindMro[i], h) : i \in 1..Len(KindMro)}

C8_Case == Called /\ GenuineOverride(OverrideHook(method))

\* C8: whenever the kind of the target has a user-defined override hook for
\* the method (__getattribute__ / __setattr__ / __delattr__), what is
\* returned is never an accessor classification and never an own-storage
\* location, whatever is stored under the name; for set and del it is
\* exactly ('attribute', <a location naming that hook>).
C8_OverrideHookOutranksEverything ==
    C8_Case =>
        /\ info.status = "return" =>
               info.tag \notin AccessorTags /\ info.loc \notin OwnStorages
        /\ method \in {"set", "del"} =>
               /\ info.status = "return"
               /\ info.tag = "attribute"
               /\ info.loc \in HookLocations(OverrideHook(method))

C8_Witness ==
    /\ C8_Case /\ method = "set"
    /\ Defined(KindMro, name)
    /\ ReadWriteAccessor(FirstDefinition(KindMro, name))
    /\ name \in DOMAIN obj.dict
    /\ info.tag = "attribute"

-----------------------------------------------------------------------------
(* C9 *)

\* C9: whenever the location returned names a hook, '<class>.<hook>', the
\* class it names is the class of the kind's linearization that defines
\* the hook, also when the kind inherits the hook from an ancestor.
C9_HookLocationNamesOwner ==
    \A h \in HookNames : \A i \in 1..Len(KindMro) :
        (info.status = "return" /\ info.loc = HookLocation(KindMro[i], h)) =>
            Defined(KindMro, h) /\ i = FirstDefiner(KindMro, h)

-----------------------------------------------------------------------------
(* C10 *)

\* C10: whenever the location returned is the own storage of a class of a
\* walked linearization (the kind's, in every algorithm; the class's own,
\* in the read via a class), that class is the first one of the
\* linearization whose own dict holds the name, whatever value it stores
\* under it, None included.
C10_WalkSelectsByKeyPresence ==
    /\ \A i \in 1..Len(KindMro) :
           (info.status = "return" /\ info.loc = OwnStorage(KindMro[i])) =>
               Defined(KindMro, name) /\ i = FirstDefiner(KindMro, name)
    /\ \A i \in 1..Len(OwnMro) :
           (/\ obj.isclass /\ method = "get"
            /\ info.status = "return" /\ info.loc = OwnStorage(OwnMro[i])) =>
               Defined(OwnMro, name) /\ i = FirstDefiner(OwnMro, name)

====
